---- MODULE Spec2Model ----
(***************************************************************************)
(* RoaringBitmap (src/src/lib.rs): a sorted Vec<Container>, one container  *)
(* per 16-bit key, and the operations insert / remove / contains /         *)
(* is_empty / cardinality on it.                                           *)
(*                                                                         *)
(* Widths are scaled so that the whole value domain can be enumerated: the *)
(* key type (u16 in the source) has NumKeys values, the index type (u16)   *)
(* has NumIndexes values and the value type (u32) has NumKeys * NumIndexes *)
(* values, so that, as in the source, a value is exactly a (key, index)    *)
(* pair and u32 arithmetic wraps at the size of the value domain.          *)
(*                                                                         *)
(* mod container is declared in lib.rs (line 7) but its file is not part   *)
(* of the sources; the Container_* definitions follow the design document  *)
(* (sections 3 and 4.1).                                                   *)
(***************************************************************************)
EXTENDS Integers, Sequences, FiniteSets, TLC

\* Number of values of the key type (u16: 65536 in the source).
NumKeys == 3

\* Number of values of the index type (u16: 65536 in the source).
NumIndexes == 2

\* Crossover threshold of a container (4096 of 65536 in the design).
T == 1

\* u32: one value per (key, index) pair; arithmetic on it wraps at U32Size.
U32Size == NumKeys * NumIndexes

Values == 0 .. (U32Size - 1)

Keys == 0 .. (NumKeys - 1)

Indexes == 0 .. (NumIndexes - 1)

VARIABLES containers, last, before, ref, keys_inserted

vars == <<containers, last, before, ref, keys_inserted>>

----------------------------------------------------------------------------
(* Library functions the source calls.                                     *)

\* Ord::cmp on unsigned integers.
cmp(a, b) == IF a < b THEN "Less" ELSE IF a = b THEN "Equal" ELSE "Greater"

\* std::slice binary_search(f): ords[i] is the closure's result on element
\* i (1-based here); the result's loc is the 0-based index of the source.
\* The closure is expected to say whether the ELEMENT is Less, Equal or
\* Greater than the target: on Less the search continues to the right of
\* the probe, on Greater to its left.
RECURSIVE binary_search_loop(_, _, _)
binary_search_loop(ords, base, lim) ==
    IF lim = 0
    THEN [found |-> FALSE, loc |-> base]
    ELSE LET ix == base + (lim \div 2)
         IN  IF ords[ix + 1] = "Equal"
             THEN [found |-> TRUE, loc |-> ix]
             ELSE IF ords[ix + 1] = "Less"
                  THEN binary_search_loop(ords, ix + 1, (lim - 1) \div 2)
                  ELSE binary_search_loop(ords, base, lim \div 2)

binary_search(ords) == binary_search_loop(ords, 0, Len(ords))

\* Vec::insert(loc, element), loc 0-based.
vec_insert(s, loc, e) == SubSeq(s, 1, loc) \o <<e>> \o SubSeq(s, loc + 1, Len(s))

\* Vec::remove(loc), loc 0-based.
vec_remove(s, loc) == SubSeq(s, 1, loc) \o SubSeq(s, loc + 2, Len(s))

----------------------------------------------------------------------------
(* Container: one key's subset of Indexes, sparse (sorted array) or dense  *)
(* (bit vector), with a maintained cardinality counter.                    *)

NoBits == [i \in Indexes |-> FALSE]

Container_new(key) ==
    [key |-> key, cardinality |-> 0, dense |-> FALSE, array |-> <<>>, bits |-> NoBits]

Container_key(c) == c.key

Container_cardinality(c) == c.cardinality

\* Locate index in the sparse array.
array_search(array, index) ==
    binary_search([i \in 1 .. Len(array) |-> cmp(array[i], index)])

\* Sparse -> dense into a fresh bit vector, without copying the indices.
to_dense_fresh(c) == [c EXCEPT !.dense = TRUE, !.array = <<>>, !.bits = NoBits]

\* Sparse -> dense: every index of the array sets its bit; the array is dropped.
to_dense(c) ==
    [c EXCEPT !.dense = TRUE,
              !.array = <<>>,
              !.bits = [i \in Indexes |-> \E j \in 1 .. Len(c.array) : c.array[j] = i]]

\* The indices whose bit is set, in increasing order.
RECURSIVE bits_to_array(_, _)
bits_to_array(bits, i) ==
    IF i = NumIndexes THEN <<>>
    ELSE (IF bits[i] THEN <<i>> ELSE <<>>) \o bits_to_array(bits, i + 1)

\* Dense -> sparse: the set bits become the sorted array; the bits are dropped.
to_sparse(c) ==
    [c EXCEPT !.dense = FALSE,
              !.array = bits_to_array(c.bits, 0),
              !.bits = NoBits]

Container_contains(c, index) ==
    IF c.dense THEN c.bits[index] ELSE array_search(c.array, index).found

Container_insert(c, index) ==
    IF c.dense
    THEN IF c.bits[index]
         THEN [ret |-> FALSE, c |-> c]
         ELSE [ret |-> TRUE,
               c |-> [c EXCEPT !.bits[index] = TRUE, !.cardinality = @ + 1]]
    ELSE LET r == array_search(c.array, index)
         IN  IF r.found
             THEN [ret |-> FALSE, c |-> c]
             ELSE LET c1 == [c EXCEPT !.array = vec_insert(@, r.loc, index),
                                      !.cardinality = @ + 1]
                  IN  [ret |-> TRUE,
                       c |-> IF c1.cardinality > T THEN to_dense(c1) ELSE c1]

\* Container remove that never converts back to the array.
Container_remove_keep_dense(c, index) ==
    IF c.dense
    THEN IF c.bits[index]
         THEN [ret |-> TRUE,
               c |-> [c EXCEPT !.bits[index] = FALSE, !.cardinality = @ - 1]]
         ELSE [ret |-> FALSE, c |-> c]
    ELSE LET r == array_search(c.array, index)
         IN  IF r.found
             THEN [ret |-> TRUE,
                   c |-> [c EXCEPT !.array = vec_remove(@, r.loc),
                                   !.cardinality = @ - 1]]
             ELSE [ret |-> FALSE, c |-> c]

Container_remove(c, index) ==
    IF c.dense
    THEN IF c.bits[index]
         THEN LET c1 == [c EXCEPT !.bits[index] = FALSE, !.cardinality = @ - 1]
              IN  [ret |-> TRUE,
                   c |-> IF c1.cardinality <= T THEN to_sparse(c1) ELSE c1]
         ELSE [ret |-> FALSE, c |-> c]
    ELSE LET r == array_search(c.array, index)
         IN  IF r.found
             THEN [ret |-> TRUE,
                   c |-> [c EXCEPT !.array = vec_remove(@, r.loc),
                                   !.cardinality = @ - 1]]
             ELSE [ret |-> FALSE, c |-> c]

----------------------------------------------------------------------------
(* RoaringBitmap                                                           *)

\* calc_loc taking the key from the low half too: the shift is missing.
calc_loc_noshift(value) == <<value % NumKeys, value % NumIndexes>>

\* calc_loc with the key half dropped: every value lands under key 0.
calc_loc_nokey(value) == <<0, value % NumIndexes>>

\* calc_loc: ((index >> u16::BITS) as u16, index as u16)
calc_loc(value) == <<(value \div NumIndexes) % NumKeys, value % NumIndexes>>

\* The closure comparing the key with the container's cardinality instead
\* of its key.
key_cmp_by_cardinality(key, container) == cmp(key, Container_cardinality(container))

\* The closure handed to binary_search by insert, remove and contains:
\* |container| key.cmp(&container.key())
key_cmp(key, container) == cmp(key, Container_key(container))

\* self.containers.as_slice().binary_search(|container| key.cmp(&container.key()))
locate(cs, key) == binary_search([i \in 1 .. Len(cs) |-> key_cmp(key, cs[i])])

new == <<>>

\* insert handing the index to the first container of the sequence instead
\* of the one at loc.
insert_into_first(cs, value) ==
    LET key   == calc_loc(value)[1]
        index == calc_loc(value)[2]
        r     == locate(cs, key)
        cs1   == IF r.found THEN cs ELSE vec_insert(cs, r.loc, Container_new(key))
        res   == Container_insert(cs1[1], index)
    IN  [ret |-> res.ret, containers |-> [cs1 EXCEPT ![1] = res.c]]

\* insert reporting whether it created the container, not whether the
\* container's insert added the index.
insert_ret_created(cs, value) ==
    LET key   == calc_loc(value)[1]
        index == calc_loc(value)[2]
        r     == locate(cs, key)
        cs1   == IF r.found THEN cs ELSE vec_insert(cs, r.loc, Container_new(key))
        res   == Container_insert(cs1[r.loc + 1], index)
    IN  [ret |-> ~r.found, containers |-> [cs1 EXCEPT ![r.loc + 1] = res.c]]

\* insert treating Found(loc) like NotFound(loc): a new container each call.
insert_always_new(cs, value) ==
    LET key   == calc_loc(value)[1]
        index == calc_loc(value)[2]
        r     == locate(cs, key)
        cs1   == vec_insert(cs, r.loc, Container_new(key))
        res   == Container_insert(cs1[r.loc + 1], index)
    IN  [ret |-> res.ret, containers |-> [cs1 EXCEPT ![r.loc + 1] = res.c]]

insert(cs, value) ==
    LET key   == calc_loc(value)[1]
        index == calc_loc(value)[2]
        r     == locate(cs, key)
        cs1   == IF r.found THEN cs ELSE vec_insert(cs, r.loc, Container_new(key))
        res   == Container_insert(cs1[r.loc + 1], index)
    IN  [ret |-> res.ret, containers |-> [cs1 EXCEPT ![r.loc + 1] = res.c]]

\* remove reporting that the container was found, not the container's result.
remove_ret_found(cs, value) ==
    LET key   == calc_loc(value)[1]
        index == calc_loc(value)[2]
        r     == locate(cs, key)
    IN  IF r.found
        THEN LET res == Container_remove(cs[r.loc + 1], index)
             IN  [ret |-> TRUE, containers |-> [cs EXCEPT ![r.loc + 1] = res.c]]
        ELSE [ret |-> FALSE, containers |-> cs]

\* remove working on a copy of the container: the result is returned, the
\* sequence keeps the old container.
remove_on_copy(cs, value) ==
    LET key   == calc_loc(value)[1]
        index == calc_loc(value)[2]
        r     == locate(cs, key)
    IN  IF r.found
        THEN [ret |-> Container_remove(cs[r.loc + 1], index).ret, containers |-> cs]
        ELSE [ret |-> FALSE, containers |-> cs]

\* remove dropping the container from the sequence once it is empty.
remove_prunes(cs, value) ==
    LET key   == calc_loc(value)[1]
        index == calc_loc(value)[2]
        r     == locate(cs, key)
    IN  IF r.found
        THEN LET res == Container_remove(cs[r.loc + 1], index)
             IN  [ret |-> res.ret,
                  containers |-> IF Container_cardinality(res.c) = 0
                                 THEN vec_remove(cs, r.loc)
                                 ELSE [cs EXCEPT ![r.loc + 1] = res.c]]
        ELSE [ret |-> FALSE, containers |-> cs]

\* remove with insert's NotFound arm: it creates the missing container.
remove_creates(cs, value) ==
    LET key   == calc_loc(value)[1]
        index == calc_loc(value)[2]
        r     == locate(cs, key)
        cs1   == IF r.found THEN cs ELSE vec_insert(cs, r.loc, Container_new(key))
        res   == Container_remove(cs1[r.loc + 1], index)
    IN  [ret |-> res.ret, containers |-> [cs1 EXCEPT ![r.loc + 1] = res.c]]

remove(cs, value) ==
    LET key   == calc_loc(value)[1]
        index == calc_loc(value)[2]
        r     == locate(cs, key)
    IN  IF r.found
        THEN LET res == Container_remove(cs[r.loc + 1], index)
             IN  [ret |-> res.ret, containers |-> [cs EXCEPT ![r.loc + 1] = res.c]]
        ELSE [ret |-> FALSE, containers |-> cs]

contains(cs, value) ==
    LET key   == calc_loc(value)[1]
        index == calc_loc(value)[2]
        r     == locate(cs, key)
    IN  IF r.found THEN Container_contains(cs[r.loc + 1], index) ELSE FALSE

\* .map(|container| container.cardinality() as u32).fold(0, |sum, c| sum + c)
RECURSIVE cardinality_fold(_, _, _)
cardinality_fold(cs, i, sum) ==
    IF i > Len(cs) THEN sum
    ELSE cardinality_fold(cs, i + 1,
                          (sum + (Container_cardinality(cs[i]) % U32Size)) % U32Size)

cardinality(cs) == cardinality_fold(cs, 1, 0)

is_empty(cs) == cardinality(cs) = 0

----------------------------------------------------------------------------
(* The state machine: containers is the bitmap's field; last records the   *)
(* most recent call and its result, before the field as that call found    *)
(* it, ref is a plain set driven by the same calls and keys_inserted the   *)
(* keys of the values passed to insert so far.                             *)

Init ==
    /\ containers = new
    /\ last = [op |-> "new", value |-> 0, ret |-> 0]
    /\ before = new
    /\ ref = {}
    /\ keys_inserted = {}

Insert(v) ==
    LET r == insert(containers, v)
    IN  /\ containers' = r.containers
        /\ last' = [op |-> "insert", value |-> v, ret |-> r.ret]
        /\ before' = containers
        /\ ref' = ref \cup {v}
        /\ keys_inserted' = keys_inserted \cup {calc_loc(v)[1]}

Remove(v) ==
    LET r == remove(containers, v)
    IN  /\ containers' = r.containers
        /\ last' = [op |-> "remove", value |-> v, ret |-> r.ret]
        /\ before' = containers
        /\ ref' = ref \ {v}
        /\ UNCHANGED keys_inserted

Contains(v) ==
    /\ last' = [op |-> "contains", value |-> v, ret |-> contains(containers, v)]
    /\ before' = containers
    /\ UNCHANGED <<containers, ref, keys_inserted>>

CardinalityCall ==
    /\ last' = [op |-> "cardinality", value |-> 0, ret |-> cardinality(containers)]
    /\ before' = containers
    /\ UNCHANGED <<containers, ref, keys_inserted>>

IsEmpty ==
    /\ last' = [op |-> "is_empty", value |-> 0, ret |-> is_empty(containers)]
    /\ before' = containers
    /\ UNCHANGED <<containers, ref, keys_inserted>>

Next ==
    \/ \E v \in Values : Insert(v)
    \/ \E v \in Values : Remove(v)
    \/ \E v \in Values : Contains(v)
    \/ CardinalityCall
    \/ IsEmpty

Spec == Init /\ [][Next]_vars

----------------------------------------------------------------------------
(* Vocabulary of the properties.                                           *)

\* The key and the index calc_loc gives a value.
KeyOf(v) == calc_loc(v)[1]

IndexOf(v) == calc_loc(v)[2]

\* Some container of cs has key k.
HasKey(cs, k) == \E i \in 1 .. Len(cs) : Container_key(cs[i]) = k

\* The values contains() reports present.
Present(cs) == {v \in Values : contains(cs, v)}

----------------------------------------------------------------------------
(* Properties                                                              *)

\* C1: after any sequence of insert and remove calls the containers
\* sequence is strictly increasing by key: each container's key is smaller
\* than the key of the container after it.
C1_StrictlyIncreasing ==
    \A i \in 1 .. (Len(containers) - 1) :
        Container_key(containers[i]) < Container_key(containers[i + 1])

\* C2: cardinality() equals the number of values v for which contains(v) is
\* true, which is the size of the reference set driven by the same calls;
\* a cardinality() call returns that number.
C2_CardinalityIsCount ==
    /\ cardinality(containers) = Cardinality(Present(containers))
    /\ cardinality(containers) = Cardinality(ref)
    /\ last.op = "cardinality" => last.ret = Cardinality(ref)

\* C3: contains(v) is true exactly when v is in the reference set, for
\* every value v and any number of containers; a contains(v) call returns
\* exactly that, so it returns false when v's key has no container and it
\* tells apart values with the same index and different keys.
C3_ContainsIsMembership ==
    /\ \A v \in Values : contains(containers, v) <=> v \in ref
    /\ last.op = "contains" =>
          /\ last.ret <=> last.value \in ref
          /\ ~HasKey(containers, KeyOf(last.value)) => last.ret = FALSE

\* C3 witness: with two or more containers, contains(v) has just returned
\* false for a v whose key has no container, while a value with the same
\* index and another key is present.
C3_Witness ==
    /\ last.op = "contains"
    /\ last.ret = FALSE
    /\ Len(containers) >= 2
    /\ ~HasKey(containers, KeyOf(last.value))
    /\ \E w \in ref : IndexOf(w) = IndexOf(last.value) /\ KeyOf(w) # KeyOf(last.value)

\* C4: insert(v) returns true if and only if v was not present when it was
\* called, v is present right after it, and the presence of every other
\* value is as it was.
C4_InsertContract ==
    last.op = "insert" =>
        /\ last.ret <=> ~contains(before, last.value)
        /\ last.ret <=> last.value \notin Present(before)
        /\ contains(containers, last.value)
        /\ \A w \in Values \ {last.value} :
              contains(containers, w) <=> contains(before, w)

\* C4 witness: insert(v) has just returned true in a bitmap that already
\* held another value under the same key and a container for another key.
C4_Witness ==
    /\ last.op = "insert"
    /\ last.ret = TRUE
    /\ Len(before) >= 2
    /\ \E w \in Present(before) : KeyOf(w) = KeyOf(last.value)

\* C5: remove(v) returns true if and only if v was present when it was
\* called, v is absent right after it, and the presence of every other
\* value is as it was.
C5_RemoveContract ==
    last.op = "remove" =>
        /\ last.ret <=> contains(before, last.value)
        /\ ~contains(containers, last.value)
        /\ \A w \in Values \ {last.value} :
              contains(containers, w) <=> contains(before, w)

\* C5 witness: remove(v) has just returned true and left another value of
\* the same key present, with containers for two or more keys.
C5_Witness ==
    /\ last.op = "remove"
    /\ last.ret = TRUE
    /\ Len(containers) >= 2
    /\ \E w \in Present(containers) : KeyOf(w) = KeyOf(last.value)

\* C6: for a v that is not present, insert(v) followed by remove(v) returns
\* (true, true) and leaves cardinality() and contains(w), for every w
\* including v, as they were before the two calls.
C6_InsertRemoveInverse ==
    (last.op = "insert" /\ ~contains(before, last.value)) =>
        LET second == remove(containers, last.value)
        IN  /\ last.ret = TRUE
            /\ second.ret = TRUE
            /\ cardinality(second.containers) = cardinality(before)
            /\ \A w \in Values :
                  contains(second.containers, w) <=> contains(before, w)

\* C6 witness: insert(v) of an absent v has just run in a bitmap that holds
\* other values, and it created the container of v's key, which the
\* following remove(v) leaves behind empty.
C6_Witness ==
    /\ last.op = "insert"
    /\ ~contains(before, last.value)
    /\ Present(before) # {}
    /\ ~HasKey(before, KeyOf(last.value))
    /\ Len(remove(containers, last.value).containers) = Len(before) + 1

\* C7: right after insert(v), a second insert(v) returns false and leaves
\* cardinality() and the container sequence as the first call left them.
C7_InsertIdempotent ==
    last.op = "insert" =>
        LET second == insert(containers, last.value)
        IN  /\ second.ret = FALSE
            /\ cardinality(second.containers) = cardinality(containers)
            /\ second.containers = containers

\* C7 witness: the first insert(v) has just returned true and there are
\* containers for three keys, so the second call has to search for its own.
C7_Witness ==
    /\ last.op = "insert"
    /\ last.ret = TRUE
    /\ Len(containers) >= 3
    /\ insert(containers, last.value).ret = FALSE

\* C8: no two containers share a key; the binary search by key finds the
\* container of every key that is in the sequence, and an insert whose key
\* already has a container adds none.
C8_UniqueKeys ==
    /\ \A i, j \in 1 .. Len(containers) :
          Container_key(containers[i]) = Container_key(containers[j]) => i = j
    /\ \A i \in 1 .. Len(containers) :
          locate(containers, Container_key(containers[i])) =
              [found |-> TRUE, loc |-> i - 1]
    /\ (last.op = "insert" /\ HasKey(before, KeyOf(last.value))) =>
          Len(containers) = Len(before)

\* C8 witness: with containers for three keys, insert has just run on a key
\* that already had its container, and added none.
C8_Witness ==
    /\ last.op = "insert"
    /\ HasKey(before, KeyOf(last.value))
    /\ Len(before) >= 3
    /\ Len(containers) = Len(before)

\* C9: remove(v) for a value whose key has no container returns false and
\* leaves the container sequence (keys, order, contents) as it was.
C9_RemoveAbsentKeyNoop ==
    (last.op = "remove" /\ ~HasKey(before, KeyOf(last.value))) =>
        /\ last.ret = FALSE
        /\ containers = before

\* C9 witness: remove(v) has just run on a key without container, in a
\* bitmap with containers for two other keys.
C9_Witness ==
    /\ last.op = "remove"
    /\ ~HasKey(before, KeyOf(last.value))
    /\ Len(before) >= 2
    /\ last.ret = FALSE

\* C10: is_empty() is true if and only if cardinality() = 0, that is if and
\* only if no value is contained, in every reachable state; an is_empty()
\* call returns exactly that.
C10_IsEmptyIffNoValue ==
    /\ is_empty(containers) <=> cardinality(containers) = 0
    /\ is_empty(containers) <=> Present(containers) = {}
    /\ last.op = "is_empty" => (last.ret <=> ref = {})

\* C11: calc_loc splits every value v into key = v >> 16 and index =
\* v & 0xFFFF, both within their 16-bit range, and loses nothing: key *
\* 65536 + index = v, so distinct values never get the same (key, index);
\* the smallest value gives (0, 0), the last value of key 0 gives (0, max),
\* the next one (1, 0) and the largest value (max, max). The widths are the
\* model's: NumIndexes for 65536, NumKeys for the number of keys.
C11_CalcLocLossless ==
    /\ \A v \in Values :
          /\ calc_loc(v)[1] \in Keys
          /\ calc_loc(v)[2] \in Indexes
          /\ calc_loc(v)[1] = v \div NumIndexes
          /\ calc_loc(v)[2] = v % NumIndexes
          /\ calc_loc(v)[1] * NumIndexes + calc_loc(v)[2] = v
    /\ \A v, w \in Values : calc_loc(v) = calc_loc(w) => v = w
    /\ calc_loc(0) = <<0, 0>>
    /\ calc_loc(NumIndexes - 1) = <<0, NumIndexes - 1>>
    /\ calc_loc(NumIndexes) = <<1, 0>>
    /\ calc_loc(U32Size - 1) = <<NumKeys - 1, NumIndexes - 1>>
    /\ (last.op = "insert" /\ last.ret = TRUE) =>
          \E i \in 1 .. Len(containers) :
              /\ Container_key(containers[i]) * NumIndexes + IndexOf(last.value)
                    = last.value
              /\ Container_contains(containers[i], IndexOf(last.value))

\* C11 witness: the largest value has just been inserted and sits under the
\* largest key at the largest index, while the largest index of key 0 is
\* present too.
C11_Witness ==
    /\ last.op = "insert"
    /\ last.ret = TRUE
    /\ last.value = U32Size - 1
    /\ (NumIndexes - 1) \in ref
    /\ \E i \in 1 .. Len(containers) :
          /\ Container_key(containers[i]) = NumKeys - 1
          /\ Container_contains(containers[i], NumIndexes - 1)

\* The indices a container reports present.
ContainerIndexes(c) == {i \in Indexes : Container_contains(c, i)}

\* The indices the reference set holds under key k.
RefIndexes(k) == {i \in Indexes : \E v \in ref : KeyOf(v) = k /\ IndexOf(v) = i}

\* The container of cs with key k (there is one).
ContainerAt(cs, k) == cs[CHOOSE i \in 1 .. Len(cs) : Container_key(cs[i]) = k]

\* C12: whichever representation a container is in, its contains(index)
\* and cardinality() agree with a plain reference set of indices driven by
\* the same inserts and removes, cardinality being the exact number of
\* indices present, and its key() stays what it was created with.
C12_RepresentationTransparent ==
    /\ \A n \in 1 .. Len(containers) :
          LET c == containers[n]
          IN  /\ ContainerIndexes(c) = RefIndexes(Container_key(c))
              /\ Container_cardinality(c) = Cardinality(RefIndexes(Container_key(c)))
              /\ Container_cardinality(c) = Cardinality(ContainerIndexes(c))
    /\ \A k \in Keys :
          HasKey(before, k) =>
              /\ HasKey(containers, k)
              /\ Container_key(ContainerAt(containers, k)) =
                    Container_key(ContainerAt(before, k))

\* C12 witness: a remove has just taken a container from dense back to
\* sparse (it went dense earlier), and an index is still present in it.
C12_Witness ==
    /\ last.op = "remove"
    /\ last.ret = TRUE
    /\ ContainerAt(before, KeyOf(last.value)).dense
    /\ ~ContainerAt(containers, KeyOf(last.value)).dense
    /\ ContainerIndexes(ContainerAt(containers, KeyOf(last.value))) # {}

\* C13: a container is dense exactly when its cardinality exceeds T: it is
\* created sparse with cardinality 0, turns dense on the insert that takes
\* the cardinality above T and sparse again on the remove that takes it
\* back to T; a conversion keeps the indices and the cardinality.
C13_DenseIffAboveT ==
    /\ \A n \in 1 .. Len(containers) :
          LET c == containers[n]
          IN  /\ c.dense <=> Container_cardinality(c) > T
              /\ c.dense => c.array = <<>>
              /\ ~c.dense =>
                    /\ c.bits = NoBits
                    /\ Len(c.array) = Container_cardinality(c)
                    /\ \A a \in 1 .. (Len(c.array) - 1) : c.array[a] < c.array[a + 1]
              /\ ~c.dense =>
                    /\ ContainerIndexes(to_dense(c)) = ContainerIndexes(c)
                    /\ Container_cardinality(to_dense(c)) = Container_cardinality(c)
              /\ c.dense =>
                    /\ ContainerIndexes(to_sparse(c)) = ContainerIndexes(c)
                    /\ Container_cardinality(to_sparse(c)) = Container_cardinality(c)
    /\ \A k \in Keys :
          /\ ~Container_new(k).dense
          /\ Container_cardinality(Container_new(k)) = 0
          /\ ContainerIndexes(Container_new(k)) = {}
    /\ (last.op = "insert" /\ last.ret = TRUE /\ HasKey(before, KeyOf(last.value))) =>
          LET old == ContainerAt(before, KeyOf(last.value))
              cur == ContainerAt(containers, KeyOf(last.value))
          IN  /\ ContainerIndexes(cur) = ContainerIndexes(old) \cup {IndexOf(last.value)}
              /\ Container_cardinality(cur) = Container_cardinality(old) + 1
    /\ (last.op = "remove" /\ last.ret = TRUE) =>
          LET old == ContainerAt(before, KeyOf(last.value))
              cur == ContainerAt(containers, KeyOf(last.value))
          IN  /\ ContainerIndexes(cur) = ContainerIndexes(old) \ {IndexOf(last.value)}
              /\ Container_cardinality(cur) = Container_cardinality(old) - 1

\* C13 witness: an insert has just taken a sparse container with T indices
\* to T + 1 indices, and it is dense now.
C13_Witness ==
    /\ last.op = "insert"
    /\ last.ret = TRUE
    /\ HasKey(before, KeyOf(last.value))
    /\ ~ContainerAt(before, KeyOf(last.value)).dense
    /\ Container_cardinality(ContainerAt(before, KeyOf(last.value))) = T
    /\ ContainerAt(containers, KeyOf(last.value)).dense
    /\ Container_cardinality(ContainerAt(containers, KeyOf(last.value))) = T + 1

\* The keys of a container sequence, in order.
KeySeq(cs) == [i \in 1 .. Len(cs) |-> Container_key(cs[i])]

\* The first position of cs whose key is greater than k, the position
\* after the end if there is none (positions from 1).
FirstGreater(cs, k) ==
    IF \E i \in 1 .. Len(cs) : Container_key(cs[i]) > k
    THEN CHOOSE i \in 1 .. Len(cs) :
            /\ Container_key(cs[i]) > k
            /\ \A j \in 1 .. (i - 1) : Container_key(cs[j]) <= k
    ELSE Len(cs) + 1

\* C14: when insert(v) finds no container for v's key, the new container
\* goes to the first position whose existing key is greater than the new
\* key (the end if there is none), and the containers already there keep
\* their relative order.
C14_InsertionPoint ==
    (last.op = "insert" /\ ~HasKey(before, KeyOf(last.value))) =>
        /\ Len(containers) = Len(before) + 1
        /\ Container_key(containers[FirstGreater(before, KeyOf(last.value))])
              = KeyOf(last.value)
        /\ KeySeq(vec_remove(containers, FirstGreater(before, KeyOf(last.value)) - 1))
              = KeySeq(before)

\* C15: the container sequence starts empty and has exactly one container
\* per distinct key ever passed to insert; only insert lengthens it, by one
\* and only for a key without container, and remove (which leaves a
\* container in place when its cardinality reaches 0), contains and the
\* other queries neither shorten nor reorder it.
C15_OneContainerPerInsertedKey ==
    /\ Len(containers) = Cardinality(keys_inserted)
    /\ \A k \in Keys : HasKey(containers, k) <=> k \in keys_inserted
    /\ last.op = "new" => containers = <<>>
    /\ last.op = "insert" =>
          Len(containers) =
              Len(before) + (IF HasKey(before, KeyOf(last.value)) THEN 0 ELSE 1)
    /\ last.op \in {"remove", "contains", "cardinality", "is_empty"} =>
          KeySeq(containers) = KeySeq(before)

\* C15 witness: a remove has just emptied a container, which stays in the
\* sequence beside another one.
C15_Witness ==
    /\ last.op = "remove"
    /\ last.ret = TRUE
    /\ Len(containers) >= 2
    /\ Container_cardinality(ContainerAt(containers, KeyOf(last.value))) = 0
    /\ KeySeq(containers) = KeySeq(before)

\* C16: every operation on v touches only the container whose key is
\* v >> 16: each container holds exactly the indices v & 0xFFFF of the
\* present values whose high half is its key, its cardinality is their
\* number (inserting 1 and a value of key 1 gives two containers of
\* cardinality 1 each and cardinality() = 2), and the containers of the
\* other keys are as the operation found them.
C16_OnlyOwnContainer ==
    /\ \A n \in 1 .. Len(containers) :
          LET c    == containers[n]
              mine == {v \in ref : v \div NumIndexes = Container_key(c)}
          IN  /\ ContainerIndexes(c) = {v % NumIndexes : v \in mine}
              /\ Container_cardinality(c) = Cardinality(mine)
    /\ last.op \in {"insert", "remove", "contains"} =>
          \A k \in Keys \ {last.value \div NumIndexes} :
              /\ HasKey(containers, k) <=> HasKey(before, k)
              /\ HasKey(before, k) => ContainerAt(containers, k) = ContainerAt(before, k)

\* C16 witness: 1 and one value of key 1 have been inserted, the second
\* just now: two containers of cardinality 1 each, cardinality() = 2.
C16_Witness ==
    /\ last.op = "insert"
    /\ last.value \div NumIndexes = 1
    /\ ref = {1, last.value}
    /\ Len(containers) = 2
    /\ \A n \in 1 .. Len(containers) : Container_cardinality(containers[n]) = 1
    /\ cardinality(containers) = 2

\* The containers' cardinalities added up as plain integers.
RECURSIVE ExactSum(_, _)
ExactSum(cs, i) ==
    IF i > Len(cs) THEN 0 ELSE Container_cardinality(cs[i]) + ExactSum(cs, i + 1)

\* C17: the sum computed by cardinality() never overflows its u32 result:
\* in every reachable state, the one with every value present included,
\* the sum of the containers' cardinalities fits the type and the call
\* returns it, the exact count of present values.
C17_NoOverflow ==
    /\ ExactSum(containers, 1) < U32Size
    /\ cardinality(containers) = ExactSum(containers, 1)
    /\ last.op = "cardinality" => last.ret = ExactSum(before, 1)

====
